---- MODULE Spec2Model ----
(***************************************************************************)
(* Model of src/ethereum_info.py (Etherscan ETH tracker v3.2):             *)
(*   - EtherscanClient._request      the retrying request dispatcher       *)
(*   - EtherscanClient.get_transactions   the paginated collector          *)
(*   - load_existing_hashes / append_csv  the deduplicating CSV store      *)
(* Durations are in milliseconds, jitter factors in per mille.             *)
(***************************************************************************)
EXTENDS Integers, Sequences, FiniteSets, TLC

VARIABLES
    \* ---- EtherscanClient._request ----
    req_pc,      \* position inside _request
    attempt,     \* loop variable of "for attempt in range(1, MAX_RETRIES + 1)"
    delay,       \* local "delay"
    slept,       \* duration of the last sleep_with_jitter (0: none yet)
    trace,       \* history: responses the transport gave to a direct call, oldest first
    reply,       \* value returned by _request (NoReply: nothing returned)
    caller,      \* who called _request: "direct", "get_balance", "get_eth_price" or "get_transactions"
    last,        \* history: the response to the latest attempt of this call, <<>> before it
    pause,       \* history: time slept at line 123 since the latest network request
    \* ---- EtherscanClient.get_transactions ----
    col_pc,      \* position inside get_transactions
    remote,      \* the remote history: [full |-> full pages, last |-> size of the page after them]
    limit,       \* argument "limit"
    results,     \* local "results"
    page,        \* local "page"
    seen_pages,  \* local "seen_pages"
    fetched,     \* page numbers successfully fetched, in order
    returned,    \* value returned by get_transactions
    \* ---- load_existing_hashes / append_csv ----
    csv_pc,      \* position inside append_csv
    ledger,      \* the file at "path": [exists, lines]
    tmp,         \* the file at "tmp_path": [exists, lines]
    txs,         \* argument "txs"
    existing,    \* local "existing"
    rows,        \* local "rows"
    write_header,\* local "write_header"
    pending,     \* what inp.read() holds and out has not received yet
    warned,      \* this call logged the "deduplication disabled" warning
    pre,         \* history: the file at "path" when this call started
    ledger0,     \* history: the file at "path" before the first call
    again,       \* history: this call repeats the input of the call before it
    \* ---- calculate_totals ----
    tot_pc,      \* position inside calculate_totals
    tot_txs,     \* argument "txs"
    tot_address, \* argument "address"
    tot_i,       \* number of records the loop has taken
    received,    \* local "received"
    sent,        \* local "sent"
    \* ---- run / main ----
    run_pc,      \* position inside run
    args,        \* the command line: [address, apikey, count, csv]
    address,     \* local "address" of run
    balance,     \* local "balance" (<<>>: not assigned, else <<value>>)
    price,       \* local "price" (<<>>: not assigned, else <<value>>)
    reported,    \* the results run has logged
    started      \* history: the fetches run has started, in order

reqVars == <<req_pc, attempt, delay, slept, trace, reply, caller, last, pause>>
colVars == <<col_pc, remote, limit, results, page, seen_pages, fetched, returned>>
csvVars == <<csv_pc, ledger, tmp, txs, existing, rows, write_header, pending,
             warned, pre, ledger0, again>>
totVars == <<tot_pc, tot_txs, tot_address, tot_i, received, sent>>
runVars == <<run_pc, args, address, balance, price, reported, started>>
appVars == <<totVars, runVars>>
vars == <<reqVars, colVars, csvVars, appVars>>

----------------------------------------------------------------------------
(* Configuration (class Config) *)

MAX_RETRIES == 5
BACKOFF_BASE == 1500
BACKOFF_MAX == 30000
JITTER == 250
RATE_LIMIT_DELAY == 250
PAGE_SIZE == 100

(* Bounds of the model *)

\* stands for the pagination guard 10_000 of get_transactions, scaled down
MaxPages == 3

\* longest input of one append_csv call
MaxLen == 2

\* lines of the ledger file: a call that could exceed them is not made
MaxLines == 5

\* rows of a ledger file found by the first call
MaxInitRows == 1

\* longest list of records given to calculate_totals
MaxTotalsTxs == 3

----------------------------------------------------------------------------
(* The transport: what session.get can produce for one attempt *)

Timeout == [conn |-> FALSE, code |-> 0, isDict |-> FALSE,
            status |-> "", message |-> "", hasResult |-> FALSE]

Http(code) == [conn |-> TRUE, code |-> code, isDict |-> FALSE,
               status |-> "", message |-> "", hasResult |-> FALSE]

Json(status, message, hasResult) ==
    [conn |-> TRUE, code |-> 200, isDict |-> TRUE,
     status |-> status, message |-> message, hasResult |-> hasResult]

Responses ==
    { Timeout, Http(429), Http(404), Http(500), Http(200),
      Json("1", "OK", TRUE),
      Json("1", "OK", FALSE),
      Json("0", "OK", TRUE),
      Json("0", "No transactions found", TRUE),
      Json("0", "Max rate limit reached", TRUE),
      Json("0", "NOTOK", TRUE) }

\* "rate limit" in message.lower()
MentionsRateLimit(message) == message \in {"Max rate limit reached"}

\* mutant: every payload whose status is not "1" is an error
OutcomeStatusOne(resp) ==
    IF ~resp.conn THEN "RequestException"
    ELSE IF resp.code = 429 THEN "RateLimitError"
    ELSE IF resp.code >= 400 /\ resp.code < 600 THEN "RequestException"
    ELSE IF ~resp.isDict THEN "APIError"
    ELSE IF resp.status = "0" /\ MentionsRateLimit(resp.message) THEN "RateLimitError"
    ELSE IF resp.status # "1" THEN "APIError"
    ELSE IF ~resp.hasResult THEN "APIError"
    ELSE "return"

\* mutant: "No transactions found" is an error message like any other
OutcomeOnlyOk(resp) ==
    IF ~resp.conn THEN "RequestException"
    ELSE IF resp.code = 429 THEN "RateLimitError"
    ELSE IF resp.code >= 400 /\ resp.code < 600 THEN "RequestException"
    ELSE IF ~resp.isDict THEN "APIError"
    ELSE IF resp.status = "0" /\ MentionsRateLimit(resp.message) THEN "RateLimitError"
    ELSE IF resp.status = "0" /\ resp.message \notin {"OK"} THEN "APIError"
    ELSE IF ~resp.hasResult THEN "APIError"
    ELSE "return"

\* The exception lines 125-150 raise for a response, or "return" (line 152)
Outcome(resp) ==
    IF ~resp.conn THEN "RequestException"                       \* session.get raises
    ELSE IF resp.code = 429 THEN "RateLimitError"               \* line 131
    ELSE IF resp.code >= 400 /\ resp.code < 600
         THEN "RequestException"                                \* raise_for_status: HTTPError
    ELSE IF ~resp.isDict THEN "APIError"                        \* line 137
    ELSE IF resp.status = "0" /\ MentionsRateLimit(resp.message)
         THEN "RateLimitError"                                  \* line 144
    ELSE IF resp.status = "0" /\ resp.message \notin {"OK", "No transactions found"}
         THEN "APIError"                                        \* line 146
    ELSE IF ~resp.hasResult THEN "APIError"                     \* line 149
    ELSE "return"

\* the except clauses of lines 154 and 156
Handled(exc) == exc \in {"RateLimitError", "RequestException", "APIError"}

\* mutant: the loop runs one attempt short
RetryRangeShort == 1..(MAX_RETRIES - 1)

\* range(1, MAX_RETRIES + 1)
RetryRange == 1..MAX_RETRIES

\* "if attempt < Config.MAX_RETRIES" (line 159)
BackoffDue(a) == a < MAX_RETRIES

Min(a, b) == IF a <= b THEN a ELSE b

\* random.uniform(1 - JITTER, 1 + JITTER): the two ends and the middle
Jitters == {1000 - JITTER, 1000, 1000 + JITTER}

\* mutant: the jitter is added to the delay instead of scaling it
SleepWithJitterAdded(d, jitter) == Min(d + jitter, BACKOFF_MAX)

\* sleep_with_jitter: the duration handed to time.sleep
SleepWithJitter(d, jitter) == Min((d * jitter) \div 1000, BACKOFF_MAX)

NoReply == [ok |-> FALSE, data |-> Timeout, result |-> <<>>]

\* The txlist API: the records of page p of a history (page size PAGE_SIZE);
\* a record is named by its position in the history
PageContent(r, p) ==
    IF p <= r.full THEN [i \in 1..PAGE_SIZE |-> (p - 1) * PAGE_SIZE + i]
    ELSE IF p = r.full + 1 THEN [i \in 1..r.last |-> r.full * PAGE_SIZE + i]
    ELSE <<>>

\* the "result" field of a payload answering the current request
Payload == IF caller = "get_transactions" THEN PageContent(remote, page) ELSE <<>>

\* a transport answers "No transactions found" only for a page without records
Answers(resp) == resp.message = "No transactions found" => Payload = <<>>

----------------------------------------------------------------------------
(* EtherscanClient._request *)

\* entry of _request (line 119), the caller's part excluded
EnterRequest(who) ==
    /\ req_pc' = "ratelimit"
    /\ attempt' = 1
    /\ delay' = BACKOFF_BASE
    /\ slept' = 0
    /\ trace' = <<>>
    /\ reply' = NoReply
    /\ caller' = who
    /\ last' = <<>>
    /\ pause' = 0

\* a direct call of _request
CallRequest ==
    /\ req_pc = "idle"
    /\ caller = "direct"
    /\ EnterRequest("direct")
    /\ UNCHANGED <<colVars, csvVars, appVars>>

\* mutant: the rate-limit wait is made before the first attempt only
RateLimitWaitsOnce(a) == a = 1

\* line 123 is inside the loop, under no condition
RateLimitWaits(a) == TRUE

\* time.sleep(Config.RATE_LIMIT_DELAY) (line 123)
RateLimitSleep ==
    /\ req_pc = "ratelimit"
    /\ req_pc' = "get"
    /\ pause' = IF RateLimitWaits(attempt) THEN pause + RATE_LIMIT_DELAY ELSE pause
    /\ UNCHANGED <<attempt, delay, slept, trace, reply, caller, last, colVars, csvVars, appVars>>

\* session.get and the classification of its response (lines 125-157)
Get ==
    /\ req_pc = "get"
    /\ \E resp \in Responses :
        /\ Answers(resp)
        /\ trace' = IF caller = "direct" THEN Append(trace, resp) ELSE trace
        /\ last' = <<resp>>
        /\ IF Outcome(resp) = "return"
           THEN /\ req_pc' = "returned"
                /\ reply' = [ok |-> TRUE, data |-> resp, result |-> Payload]
           ELSE /\ req_pc' = IF Handled(Outcome(resp)) THEN "failed" ELSE "raised"
                /\ reply' = reply
    /\ pause' = 0
    /\ UNCHANGED <<attempt, delay, slept, caller, colVars, csvVars, appVars>>

\* after a handled exception: the backoff and the next iteration, or the
\* raise that follows the loop (lines 159-163)
Retry ==
    /\ req_pc = "failed"
    /\ \E jitter \in Jitters :
        /\ slept' = IF BackoffDue(attempt) THEN SleepWithJitter(delay, jitter) ELSE slept
        /\ delay' = IF BackoffDue(attempt) THEN delay * 2 ELSE delay
    /\ IF attempt + 1 \in RetryRange
       THEN attempt' = attempt + 1 /\ req_pc' = "ratelimit"
       ELSE attempt' = attempt /\ req_pc' = "raised"
    /\ UNCHANGED <<trace, reply, caller, last, pause, colVars, csvVars, appVars>>

\* no call of _request is in progress
IdleRequest ==
    /\ req_pc = "idle"
    /\ attempt = 1
    /\ delay = BACKOFF_BASE
    /\ slept = 0
    /\ trace = <<>>
    /\ reply = NoReply
    /\ last = <<>>
    /\ pause = 0

----------------------------------------------------------------------------
(* EtherscanClient.get_transactions *)

\* the last sizes a history may end with: no record, a short page
LastSizes == {0, 37}

\* the histories of the remote service: full pages, then a short or empty one
Histories == [full : 0..(MaxPages + 1), last : LastSizes]

\* values of the argument "limit"
Limits ==
    {-1, 0, 50, PAGE_SIZE, 237, 500, (MaxPages + 1) * PAGE_SIZE, (MaxPages + 2) * PAGE_SIZE}

\* mutant: the accumulator is returned as it is
SliceNone(s, n) == s

\* s[:n] of a Python list
Slice(s, n) ==
    IF n >= 0 THEN SubSeq(s, 1, Min(n, Len(s)))
    ELSE SubSeq(s, 1, IF Len(s) + n > 0 THEN Len(s) + n ELSE 0)

\* mutant: the guard lets one more page through
GuardExceededLate(n) == n > MaxPages + 1

\* "seen_pages > 10_000" (line 209)
GuardExceeded(n) == n > MaxPages

\* mutant: a short page does not end the collection
ShortPageNever(batch) == FALSE

\* "len(txs) < Config.PAGE_SIZE" (line 206)
ShortPage(batch) == Len(batch) < PAGE_SIZE

\* entry of get_transactions (lines 183-185)
EnterGetTransactions(lim) ==
    /\ limit' = lim
    /\ results' = <<>>
    /\ page' = 1
    /\ seen_pages' = 0
    /\ fetched' = <<>>
    /\ returned' = <<>>
    /\ col_pc' = "loop"

\* a call of get_transactions
CallGetTransactions ==
    /\ col_pc = "idle"
    /\ req_pc = "idle"
    /\ \E lim \in Limits : EnterGetTransactions(lim)
    /\ UNCHANGED <<remote, reqVars, csvVars, appVars>>

\* "while len(results) < limit" (line 187): the next request (line 188), or
\* the return of line 214
LoopTest ==
    /\ col_pc = "loop"
    /\ IF Len(results) < limit
       THEN /\ EnterRequest("get_transactions")
            /\ col_pc' = "request"
            /\ returned' = returned
       ELSE /\ col_pc' = "done"
            /\ returned' = Slice(results, limit)
            /\ UNCHANGED reqVars
    /\ UNCHANGED <<remote, limit, results, page, seen_pages, fetched, csvVars, appVars>>

\* _request returned: lines 199-212, and line 214 after a break
TakePage ==
    /\ col_pc = "request"
    /\ req_pc = "returned"
    /\ req_pc' = "idle"
    /\ fetched' = Append(fetched, page)
    /\ LET batch == reply.result IN
       IF batch = <<>>
       THEN /\ col_pc' = "done"
            /\ returned' = Slice(results, limit)
            /\ UNCHANGED <<results, seen_pages, page>>
       ELSE /\ results' = results \o batch
            /\ seen_pages' = seen_pages + 1
            /\ IF ShortPage(batch)
               THEN /\ col_pc' = "done"
                    /\ returned' = Slice(results', limit)
                    /\ page' = page
               ELSE IF GuardExceeded(seen_pages')
               THEN /\ col_pc' = "raised"
                    /\ returned' = returned
                    /\ page' = page
               ELSE /\ col_pc' = "loop"
                    /\ returned' = returned
                    /\ page' = page + 1
    /\ UNCHANGED <<remote, limit, attempt, delay, slept, trace, reply, caller, last, pause,
                   csvVars, appVars>>

\* _request raised: the exception leaves get_transactions
RequestFailed ==
    /\ col_pc = "request"
    /\ req_pc = "raised"
    /\ col_pc' = "raised"
    /\ UNCHANGED <<remote, limit, results, page, seen_pages, fetched, returned, reqVars, csvVars, appVars>>

----------------------------------------------------------------------------
(* CSV handling: load_existing_hashes and append_csv *)

\* transaction hashes, and the "value" fields (wei, as the API gives them)
Hashes == {"0xa", "0xb"}
Values == {"1000000000000000000", "3"}

\* the transaction records append_csv may be given
Records == [hash : Hashes, value : Values]

\* round(safe_int(value) / WEI_TO_ETH, 8) as the csv module writes it
ValueEth(v) == IF v = "1000000000000000000" THEN "1.0" ELSE "0.0"

\* the lines of a file: the header writeheader() writes, a data row, and a
\* line that is not UTF-8 text
Header == [kind |-> "header", hash |-> "hash", value_eth |-> "value_eth"]
Garbage == [kind |-> "garbage", hash |-> "", value_eth |-> ""]

\* the row writer.writerow writes for a record (lines 248-258)
CsvRow(tx) == [kind |-> "row", hash |-> tx.hash, value_eth |-> ValueEth(tx.value)]

Absent == [exists |-> FALSE, lines |-> <<>>]
File(ls) == [exists |-> TRUE, lines |-> ls]

\* sequences over S of length at most n
SeqsUpTo(S, n) == UNION {[1..k -> S] : k \in 0..n}

\* mutant: the "hash" column is never found
LoadExistingHashesNone(f) == [hashes |-> {}, warned |-> FALSE]

\* mutant: undecodable lines are skipped instead of raising
LoadExistingHashesLenient(f) ==
    IF ~f.exists \/ f.lines = <<>> \/ f.lines[1] # Header
    THEN [hashes |-> {}, warned |-> FALSE]
    ELSE [hashes |-> {f.lines[i].hash : i \in {j \in 2..Len(f.lines) : f.lines[j].kind # "garbage"}},
          warned |-> FALSE]

\* load_existing_hashes: the set it returns, and whether it logged the warning
LoadExistingHashes(f) ==
    IF ~f.exists THEN [hashes |-> {}, warned |-> FALSE]           \* lines 221-222
    ELSE IF \E i \in 1..Len(f.lines) : f.lines[i].kind = "garbage"
         THEN [hashes |-> {}, warned |-> TRUE]                    \* lines 227-229
    ELSE IF f.lines = <<>> THEN [hashes |-> {}, warned |-> FALSE]
    ELSE IF f.lines[1] # Header
         \* DictReader takes the first line as the field names: no "hash" column
         THEN [hashes |-> {}, warned |-> FALSE]
    ELSE [hashes |-> {f.lines[i].hash : i \in {j \in 2..Len(f.lines) : f.lines[j].hash # ""}},
          warned |-> FALSE]

\* mutant: the membership test is inverted
NewRowsInverted(t, seen) == SelectSeq(t, LAMBDA tx : tx.hash \in seen)

\* [tx for tx in txs if tx.get("hash") not in existing] (line 234)
NewRows(t, seen) == SelectSeq(t, LAMBDA tx : tx.hash \notin seen)

\* mutant: the file is always opened for writing
OpenModeWrite(f) == "w"

\* "a" if path.exists() else "w" (line 260)
OpenMode(f) == IF f.exists THEN "a" ELSE "w"

\* entry of append_csv
EnterAppend(x) ==
    /\ txs' = x
    /\ csv_pc' = "load"
    /\ pre' = ledger
    /\ warned' = FALSE
    /\ existing' = {}
    /\ rows' = <<>>
    /\ write_header' = FALSE
    /\ pending' = <<>>

\* a call of append_csv on the ledger file
CallAppend ==
    /\ csv_pc \in {"idle", "done"}
    /\ \E x \in SeqsUpTo(Records, MaxLen) :
        /\ (IF ledger.exists THEN Len(ledger.lines) ELSE 1) + Len(x) <= MaxLines
        /\ EnterAppend(x)
        /\ again' = (csv_pc = "done" /\ x = txs)
    /\ UNCHANGED <<ledger, tmp, ledger0, reqVars, colVars, appVars>>

\* lines 233-238: load, filter, and the early return
LoadAndFilter ==
    /\ csv_pc = "load"
    /\ LET loaded == LoadExistingHashes(ledger) IN
        /\ existing' = loaded.hashes
        /\ warned' = loaded.warned
        /\ rows' = NewRows(txs, loaded.hashes)
    /\ csv_pc' = IF rows' = <<>> THEN "done" ELSE "stage"
    /\ UNCHANGED <<ledger, tmp, txs, write_header, pending, pre, ledger0, again,
                   reqVars, colVars, appVars>>

\* mutant: the header is copied with every merge
WriteHeaderAlways(f) == TRUE

\* "write_header = not path.exists()" (line 241)
WriteHeader(f) == ~f.exists

\* lines 240-258: the new rows are written to the temporary file
Stage ==
    /\ csv_pc = "stage"
    /\ write_header' = WriteHeader(ledger)
    /\ tmp' = File(<<Header>> \o [i \in 1..Len(rows) |-> CsvRow(rows[i])])
    /\ csv_pc' = "open"
    /\ UNCHANGED <<ledger, txs, existing, rows, pending, warned, pre, ledger0, again,
                   reqVars, colVars, appVars>>

\* lines 260-264: both files are opened, the header is skipped
OpenFiles ==
    /\ csv_pc = "open"
    /\ ledger' = IF OpenMode(ledger) = "w" THEN File(<<>>) ELSE File(ledger.lines)
    /\ pending' = IF write_header THEN tmp.lines ELSE Tail(tmp.lines)
    /\ csv_pc' = "copy"
    /\ UNCHANGED <<tmp, txs, existing, rows, write_header, warned, pre, ledger0, again,
                   reqVars, colVars, appVars>>

\* line 265 and the close of both files
Copy ==
    /\ csv_pc = "copy"
    /\ ledger' = File(ledger.lines \o pending)
    /\ pending' = <<>>
    /\ csv_pc' = "unlink"
    /\ UNCHANGED <<tmp, txs, existing, rows, write_header, warned, pre, ledger0, again,
                   reqVars, colVars, appVars>>

\* lines 267-268
Unlink ==
    /\ csv_pc = "unlink"
    /\ tmp' = Absent
    /\ csv_pc' = "done"
    /\ UNCHANGED <<ledger, txs, existing, rows, write_header, pending, warned, pre, ledger0,
                   again, reqVars, colVars, appVars>>

\* the process dies, or an I/O error leaves append_csv, somewhere inside the
\* call; during line 265 any part of the pending lines may have reached the file
Crash ==
    /\ csv_pc \in {"load", "stage", "open", "copy", "unlink"}
    /\ csv_pc' = "crashed"
    /\ IF csv_pc = "copy"
       THEN \E k \in 0..Len(pending) :
               /\ ledger' = File(ledger.lines \o SubSeq(pending, 1, k))
               /\ pending' = SubSeq(pending, k + 1, Len(pending))
       ELSE UNCHANGED <<ledger, pending>>
    /\ UNCHANGED <<tmp, txs, existing, rows, write_header, warned, pre, ledger0, again,
                   reqVars, colVars, appVars>>

\* append_csv is not running and has not run
IdleCsv ==
    /\ csv_pc = "idle"
    /\ ledger = Absent
    /\ tmp = Absent
    /\ txs = <<>>
    /\ existing = {}
    /\ rows = <<>>
    /\ write_header = FALSE
    /\ pending = <<>>
    /\ warned = FALSE
    /\ pre = Absent
    /\ ledger0 = Absent
    /\ again = FALSE

----------------------------------------------------------------------------
(* Analytics: calculate_totals.  Amounts are in units of 0.1 ETH. *)

\* addresses, shortened: "0xAB" is "0xab" written with capital hex digits
Lower(a) == IF a = "0xAB" THEN "0xab" ELSE IF a = "0xCD" THEN "0xcd" ELSE a

\* safe_int(value) / Config.WEI_TO_ETH for the "value" strings of the model;
\* "abc" is no number: safe_int gives its default 0
Amount(v) ==
    CASE v = "1500000000000000000" -> 15
      [] v = "500000000000000000" -> 5
      [] v = "100000000000000000000" -> 1000
      [] v = "1000000000000000000" -> 10
      [] v = "abc" -> 0

\* the records calculate_totals may be given: transfers of 1.5 and 0.5 ETH
\* that succeeded and transfers of 100 ETH flagged as failed
TotalsRecords ==
    [isError : {"0"},
     value : {"1500000000000000000", "500000000000000000"},
     to : {"0xab", "0xAB", "0xcd"},
     from : {"0xab", "0xcd"}]
    \cup
    [isError : {"1"},
     value : {"100000000000000000000"},
     to : {"0xab", "0xAB", "0xcd"},
     from : {"0xab", "0xcd"}]

\* the sum a record is added to (lines 281-288)
SideOf(tx, addr) ==
    IF tx.isError = "1" THEN "none"
    ELSE IF Lower(tx.to) = addr THEN "received"
    ELSE IF Lower(tx.from) = addr THEN "sent"
    ELSE "none"

\* entry of calculate_totals (line 278)
EnterTotals(t, a) ==
    /\ tot_txs' = t
    /\ tot_address' = a
    /\ tot_i' = 0
    /\ received' = 0
    /\ sent' = 0
    /\ tot_pc' = "loop"

\* a call of calculate_totals with the address validate_address returned
CallCalculateTotals ==
    /\ tot_pc = "idle"
    /\ run_pc = "idle"
    /\ \E t \in SeqsUpTo(TotalsRecords, MaxTotalsTxs) : EnterTotals(t, "0xab")
    /\ UNCHANGED <<reqVars, colVars, csvVars, runVars>>

\* one iteration of the loop of lines 280-288, or the return of line 290
TotalsStep ==
    /\ tot_pc = "loop"
    /\ IF tot_i = Len(tot_txs)
       THEN /\ tot_pc' = "done"
            /\ UNCHANGED <<tot_i, received, sent>>
       ELSE LET tx == tot_txs[tot_i + 1] IN
            /\ tot_i' = tot_i + 1
            /\ tot_pc' = tot_pc
            /\ received' = IF SideOf(tx, tot_address) = "received"
                           THEN received + Amount(tx.value) ELSE received
            /\ sent' = IF SideOf(tx, tot_address) = "sent"
                       THEN sent + Amount(tx.value) ELSE sent
    /\ UNCHANGED <<tot_txs, tot_address, reqVars, colVars, csvVars, runVars>>

\* calculate_totals is not running and has not run
IdleTotals ==
    /\ tot_pc = "idle"
    /\ tot_txs = <<>>
    /\ tot_address = ""
    /\ tot_i = 0
    /\ received = 0
    /\ sent = 0

\* run is not running
IdleRun ==
    /\ run_pc = "idle"
    /\ args = [address |-> "", apikey |-> "", count |-> 0, csv |-> ""]
    /\ address = ""
    /\ balance = <<>>
    /\ price = <<>>
    /\ reported = {}
    /\ started = <<>>

----------------------------------------------------------------------------
(* run and main *)

\* ADDRESS_RE.fullmatch(address), on the shortened addresses of the model
ValidAddress(a) == a \in {"0xab", "0xAB", "0xcd", "0xCD"}

\* mutant: any API key is accepted
ValidApiKeyAny(k) == TRUE

\* "not api_key or len(api_key) < 10" raises (line 111)
ValidApiKey(k) == k # "" /\ Len(k) >= 10

\* the command lines of the model
RunArgs ==
    [address : {"0xAB", "nope"},
     apikey : {"0123456789", "short"},
     count : {0, 50, (MaxPages + 2) * PAGE_SIZE},
     csv : {"", "ledger.csv"}]

\* the histories the remote service holds in a run
RunHistories ==
    {[full |-> 0, last |-> 0], [full |-> 0, last |-> 37], [full |-> 1, last |-> 0],
     [full |-> MaxPages + 1, last |-> 0]}

\* the ledger files a run may find
RunLedgers ==
    {Absent, File(<<Header, [kind |-> "row", hash |-> "1", value_eth |-> "1.0"]>>)}

\* the record the service holds at position i of the history: every fifth
\* one failed; transfers to the address, from it, and between other accounts
TxOf(i) ==
    [hash |-> ToString(i),
     value |-> "1000000000000000000",
     isError |-> IF i % 5 = 0 THEN "1" ELSE "0",
     to |-> IF i % 3 = 1 THEN "0xAB" ELSE "0xcd",
     from |-> IF i % 3 = 2 THEN "0xab" ELSE "0xcd"]

\* safe_int(data["result"]) / WEI_TO_ETH (line 173): a payload of status "1"
\* carries the balance, here 1 ETH; any other carries a text
BalanceOf(r) == IF r.data.status = "1" THEN Amount("1000000000000000000") ELSE Amount("abc")

\* data["result"]["ethusd"] (line 180) can be read: only a payload of status
\* "1" carries the price record
PriceGiven(r) == r.data.status = "1"

\* lines 302-303: validate_address and EtherscanClient.__init__
RunValidate ==
    /\ run_pc = "start"
    /\ IF ValidAddress(args.address) /\ ValidApiKey(args.apikey)
       THEN address' = Lower(args.address) /\ run_pc' = "balance"
       ELSE address' = address /\ run_pc' = "failed"
    /\ UNCHANGED <<args, balance, price, reported, started,
                   reqVars, colVars, csvVars, totVars>>

\* line 307: get_balance calls _request
RunGetBalance ==
    /\ run_pc = "balance"
    /\ req_pc = "idle"
    /\ EnterRequest("get_balance")
    /\ started' = Append(started, "balance")
    /\ run_pc' = "balance_wait"
    /\ UNCHANGED <<args, address, balance, price, reported, colVars, csvVars, totVars>>

\* line 173: get_balance returns
RunBalance ==
    /\ run_pc = "balance_wait"
    /\ req_pc = "returned"
    /\ req_pc' = "idle"
    /\ balance' = <<BalanceOf(reply)>>
    /\ run_pc' = "price"
    /\ UNCHANGED <<args, address, price, reported, started,
                   attempt, delay, slept, trace, reply, caller, last, pause,
                   colVars, csvVars, totVars>>

\* line 308: get_eth_price calls _request
RunGetPrice ==
    /\ run_pc = "price"
    /\ req_pc = "idle"
    /\ EnterRequest("get_eth_price")
    /\ started' = Append(started, "price")
    /\ run_pc' = "price_wait"
    /\ UNCHANGED <<args, address, balance, price, reported, colVars, csvVars, totVars>>

\* line 180: get_eth_price returns, or the lookup raises
RunPrice ==
    /\ run_pc = "price_wait"
    /\ req_pc = "returned"
    /\ req_pc' = "idle"
    /\ IF PriceGiven(reply)
       THEN price' = <<"ethusd">> /\ run_pc' = "history"
       ELSE price' = price /\ run_pc' = "failed"
    /\ UNCHANGED <<args, address, balance, reported, started,
                   attempt, delay, slept, trace, reply, caller, last, pause,
                   colVars, csvVars, totVars>>

\* _request raised in get_balance or get_eth_price: the exception leaves run
RunRequestFailed ==
    /\ run_pc \in {"balance_wait", "price_wait"}
    /\ req_pc = "raised"
    /\ run_pc' = "failed"
    /\ UNCHANGED <<args, address, balance, price, reported, started,
                   reqVars, colVars, csvVars, totVars>>

\* line 309: get_transactions(address, count)
RunGetTransactions ==
    /\ run_pc = "history"
    /\ col_pc = "idle"
    /\ req_pc = "idle"
    /\ EnterGetTransactions(args.count)
    /\ started' = Append(started, "history")
    /\ run_pc' = "history_wait"
    /\ UNCHANGED <<args, address, balance, price, reported, remote,
                   reqVars, csvVars, totVars>>

\* get_transactions raised: the exception leaves run
RunHistoryFailed ==
    /\ run_pc = "history_wait"
    /\ col_pc = "raised"
    /\ run_pc' = "failed"
    /\ UNCHANGED <<args, address, balance, price, reported, started,
                   reqVars, colVars, csvVars, totVars>>

\* line 311: calculate_totals(txs, address)
RunTotals ==
    /\ run_pc = "history_wait"
    /\ col_pc = "done"
    /\ EnterTotals([i \in 1..Len(returned) |-> TxOf(returned[i])], address)
    /\ run_pc' = "totals"
    /\ UNCHANGED <<args, address, balance, price, reported, started,
                   reqVars, colVars, csvVars>>

\* lines 313-319: the five report lines, and "if csv_out"
RunReport ==
    /\ run_pc = "totals"
    /\ tot_pc = "done"
    /\ reported' = reported \cup {"Balance", "ETH price", "Transactions", "Total in", "Total out"}
    /\ run_pc' = IF args.csv # "" THEN "persist" ELSE "done"
    /\ UNCHANGED <<args, address, balance, price, started,
                   reqVars, colVars, csvVars, totVars>>

\* line 320: append_csv(txs, Path(csv_out))
RunPersist ==
    /\ run_pc = "persist"
    /\ csv_pc = "idle"
    /\ EnterAppend(tot_txs)
    /\ again' = FALSE
    /\ run_pc' = "persist_wait"
    /\ UNCHANGED <<args, address, balance, price, reported, started,
                   ledger, tmp, ledger0, reqVars, colVars, totVars>>

\* append_csv returned, and run with it
RunDone ==
    /\ run_pc = "persist_wait"
    /\ csv_pc = "done"
    /\ run_pc' = "done"
    /\ UNCHANGED <<args, address, balance, price, reported, started,
                   reqVars, colVars, csvVars, totVars>>

\* main's "except Exception" (lines 342-344): the error is logged and raised again
MainFatal ==
    /\ run_pc = "failed"
    /\ reported' = reported \cup {"Fatal error"}
    /\ run_pc' = "fatal"
    /\ UNCHANGED <<args, address, balance, price, started,
                   reqVars, colVars, csvVars, totVars>>

----------------------------------------------------------------------------
(* A direct call of _request against a transport free to answer anything *)

IdleCollector ==
    /\ col_pc = "idle"
    /\ remote = [full |-> 0, last |-> 0]
    /\ limit = 0
    /\ results = <<>>
    /\ page = 1
    /\ seen_pages = 0
    /\ fetched = <<>>
    /\ returned = <<>>

InitRequest ==
    IdleRequest /\ caller = "direct" /\ IdleCollector /\ IdleCsv /\ IdleTotals /\ IdleRun

NextRequest == CallRequest \/ RateLimitSleep \/ Get \/ Retry

SpecRequest == InitRequest /\ [][NextRequest]_vars

----------------------------------------------------------------------------
(* get_transactions against a history of the remote service *)

InitCollect ==
    /\ IdleRequest
    /\ caller = "get_transactions"
    /\ col_pc = "idle"
    /\ remote \in Histories
    /\ limit = 0
    /\ results = <<>>
    /\ page = 1
    /\ seen_pages = 0
    /\ fetched = <<>>
    /\ returned = <<>>
    /\ IdleCsv
    /\ IdleTotals
    /\ IdleRun

NextCollect ==
    \/ CallGetTransactions \/ LoopTest \/ TakePage \/ RequestFailed
    \/ RateLimitSleep \/ Get \/ Retry

SpecCollect == InitCollect /\ [][NextCollect]_vars

\* the same, the process not stopping while it has a step to take
SpecCollectFair == SpecCollect /\ WF_vars(NextCollect)

----------------------------------------------------------------------------
(* append_csv called again and again on a ledger file *)

\* rows of distinct hashes, as a ledger written without repeated input holds
DistinctRows ==
    {r \in SeqsUpTo([kind : {"row"}, hash : Hashes, value_eth : {"1.0", "0.0"}], MaxInitRows) :
        \A i, j \in 1..Len(r) : r[i].hash = r[j].hash => i = j}

\* the files append_csv may find: none, a ledger, a ledger with a damaged line
InitialLedgers ==
    {Absent}
    \cup {File(<<Header>> \o r) : r \in DistinctRows}
    \cup {File(<<Header>> \o r \o <<Garbage>>) : r \in DistinctRows}

InitCsv ==
    /\ IdleRequest /\ caller = "direct" /\ IdleCollector /\ IdleTotals /\ IdleRun
    /\ csv_pc = "idle"
    /\ ledger \in InitialLedgers
    /\ ledger0 = ledger
    /\ pre = ledger
    /\ tmp = Absent
    /\ txs = <<>>
    /\ existing = {}
    /\ rows = <<>>
    /\ write_header = FALSE
    /\ pending = <<>>
    /\ warned = FALSE
    /\ again = FALSE

NextCsv == CallAppend \/ LoadAndFilter \/ Stage \/ OpenFiles \/ Copy \/ Unlink

SpecCsv == InitCsv /\ [][NextCsv]_vars

\* the same, with interruptions
NextCrash == NextCsv \/ Crash

SpecCrash == InitCsv /\ [][NextCrash]_vars

----------------------------------------------------------------------------
(* calculate_totals applied to a list of records *)

InitTotals ==
    IdleRequest /\ caller = "direct" /\ IdleCollector /\ IdleCsv /\ IdleTotals /\ IdleRun

NextTotals == CallCalculateTotals \/ TotalsStep

SpecTotals == InitTotals /\ [][NextTotals]_vars

----------------------------------------------------------------------------
(* One run of the program *)

InitRun ==
    /\ IdleRequest
    /\ caller = "get_balance"
    /\ col_pc = "idle"
    /\ remote \in RunHistories
    /\ limit = 0
    /\ results = <<>>
    /\ page = 1
    /\ seen_pages = 0
    /\ fetched = <<>>
    /\ returned = <<>>
    /\ csv_pc = "idle"
    /\ ledger \in RunLedgers
    /\ ledger0 = ledger
    /\ pre = ledger
    /\ tmp = Absent
    /\ txs = <<>>
    /\ existing = {}
    /\ rows = <<>>
    /\ write_header = FALSE
    /\ pending = <<>>
    /\ warned = FALSE
    /\ again = FALSE
    /\ IdleTotals
    /\ run_pc = "start"
    /\ args \in RunArgs
    /\ address = ""
    /\ balance = <<>>
    /\ price = <<>>
    /\ reported = {}
    /\ started = <<>>

NextRun ==
    \/ RunValidate \/ RunGetBalance \/ RunBalance \/ RunGetPrice \/ RunPrice
    \/ RunRequestFailed \/ RunGetTransactions \/ RunHistoryFailed \/ RunTotals
    \/ RunReport \/ RunPersist \/ RunDone \/ MainFatal
    \/ RateLimitSleep \/ Get \/ Retry
    \/ LoopTest \/ TakePage \/ RequestFailed
    \/ TotalsStep
    \/ LoadAndFilter \/ Stage \/ OpenFiles \/ Copy \/ Unlink

SpecRun == InitRun /\ [][NextRun]_vars

----------------------------------------------------------------------------
(* The outcome classes of the specification (section 4.2, step 3) *)

TransientFailure(resp) ==
    \/ ~resp.conn
    \/ resp.code = 429
    \/ resp.code >= 500 /\ resp.code < 600
    \/ resp.code = 200 /\ resp.isDict /\ resp.status = "0" /\ MentionsRateLimit(resp.message)

FatalFailure(resp) ==
    \/ resp.code >= 400 /\ resp.code < 500 /\ resp.code # 429
    \/ resp.code = 200 /\ ~resp.isDict
    \/ resp.code = 200 /\ resp.isDict /\ ~resp.hasResult
    \/ resp.code = 200 /\ resp.isDict /\ resp.status = "0"
         /\ ~MentionsRateLimit(resp.message)
         /\ resp.message \notin {"OK", "No transactions found"}

ValidSuccess(resp) ==
    /\ resp.code = 200 /\ resp.isDict /\ resp.hasResult
    /\ resp.status = "1" \/ resp.message \in {"OK", "No transactions found"}

AllTransient(t) == \A i \in 1..Len(t) : TransientFailure(t[i])

\* C1: a call whose first attempt got a fatal-class response ends in failure
\* after that one attempt: no backoff sleep, no second attempt.
C1_FatalNotRetried ==
    (trace # <<>> /\ FatalFailure(trace[1]))
        => /\ Len(trace) = 1
           /\ attempt = 1
           /\ slept = 0
           /\ req_pc \in {"failed", "raised"}

\* C2: when the transport failed transiently on the first k attempts and then
\* gave a valid success payload, _request has returned that payload after
\* exactly k+1 attempts; and no response ever follows a valid success.
C2_SuccessAfterTransients ==
    /\ \A i \in 1..Len(trace) : ValidSuccess(trace[i]) => i = Len(trace)
    /\ (trace # <<>> /\ ValidSuccess(trace[Len(trace)])
            /\ AllTransient(SubSeq(trace, 1, Len(trace) - 1)))
        => /\ req_pc = "returned"
           /\ attempt = Len(trace)
           /\ reply = [ok |-> TRUE, data |-> trace[Len(trace)], result |-> <<>>]

C2_Witness ==
    /\ req_pc = "returned"
    /\ Len(trace) = MAX_RETRIES
    /\ AllTransient(SubSeq(trace, 1, MAX_RETRIES - 1))
    /\ trace[1] = Timeout /\ trace[2] = Http(429) /\ trace[3] = Http(500)
    /\ trace[4] = Json("0", "Max rate limit reached", TRUE)
    /\ trace[5] = Json("1", "OK", TRUE)

\* C3: one call makes at most MAX_RETRIES attempts; it raises only after
\* MAX_RETRIES attempts; while the transport has failed transiently on every
\* attempt and attempts remain the call is still running, and after the
\* MAX_RETRIES-th such failure it ends in failure.
C3_RetriesBounded ==
    /\ attempt \in 1..MAX_RETRIES
    /\ Len(trace) <= MAX_RETRIES
    /\ req_pc = "raised" => (Len(trace) = MAX_RETRIES /\ attempt = MAX_RETRIES /\ ~reply.ok)
    /\ (AllTransient(trace) /\ req_pc # "idle") =>
          IF Len(trace) < MAX_RETRIES
          THEN req_pc \in {"ratelimit", "get", "failed"}
          ELSE req_pc \in {"failed", "raised"}

C3_Witness ==
    /\ req_pc = "raised"
    /\ Len(trace) = MAX_RETRIES
    /\ AllTransient(trace)

----------------------------------------------------------------------------
(* The collector's result *)

\* number of records of a history
Total(r) == r.full * PAGE_SIZE + r.last

\* the first n records of a history, in page order
FirstRecords(n) == [i \in 1..n |-> i]

\* every page request of this collection was answered successfully
PagesAnswered == req_pc # "raised"

\* C4 as stated: for every limit >= 0 and every history of full pages and
\* a short or empty page, answered successfully, the collector returns
\* exactly the first min(limit, total) records in page order.
C4_ReturnsFirstRecords ==
    (col_pc \in {"done", "raised"} /\ limit >= 0 /\ PagesAnswered)
        => /\ col_pc = "done"
           /\ returned = FirstRecords(Min(limit, Total(remote)))

\* C4 amended: whenever the collector returns, it returns exactly the first
\* min(limit, total) records in page order, never more than limit; it raises
\* instead of returning exactly when the page after MaxPages full pages is
\* requested and is full too.
C4_ReturnsFirstRecordsUnlessGuard ==
    (col_pc \in {"done", "raised"} /\ limit >= 0 /\ PagesAnswered)
        => IF remote.full > MaxPages /\ limit > MaxPages * PAGE_SIZE
           THEN col_pc = "raised"
           ELSE /\ col_pc = "done"
                /\ returned = FirstRecords(Min(limit, Total(remote)))
                /\ Len(returned) <= limit

C4_Witness ==
    /\ col_pc = "done"
    /\ remote = [full |-> 2, last |-> 37]
    /\ limit = 500
    /\ Len(returned) = 237

C4_WitnessTruncated ==
    /\ col_pc = "done"
    /\ remote = [full |-> 2, last |-> 37]
    /\ limit = 50
    /\ Len(returned) = 50
    /\ fetched = <<1>>

----------------------------------------------------------------------------
(* The persisted ledger *)

\* the hashes a file holds: those of its data rows
PersistedHashes(f) ==
    {f.lines[i].hash : i \in {j \in 1..Len(f.lines) : f.lines[j].kind = "row"}}

\* an existing file every line of which can be read
Readable(f) == f.exists /\ \A i \in 1..Len(f.lines) : f.lines[i].kind # "garbage"

\* an existing file that cannot be parsed
Unreadable(f) == f.exists /\ \E i \in 1..Len(f.lines) : f.lines[i].kind = "garbage"

IsPrefix(s, t) == Len(s) <= Len(t) /\ SubSeq(t, 1, Len(s)) = s

\* the rows of the input records whose hash the file before the call lacks
RECURSIVE AbsentRows(_, _)
AbsentRows(t, f) ==
    IF t = <<>> THEN <<>>
    ELSE IF Head(t).hash \in PersistedHashes(f)
         THEN AbsentRows(Tail(t), f)
         ELSE <<[kind |-> "row", hash |-> Head(t).hash, value_eth |-> ValueEth(Head(t).value)]>>
                  \o AbsentRows(Tail(t), f)

\* C5: a completed call on a readable existing ledger has added, after the
\* lines the ledger had, exactly the rows of the input records whose hash was
\* absent from it, in input order: as many rows as there are such records.
C5_AddsAbsentHashes ==
    (csv_pc = "done" /\ Readable(pre))
        => /\ ledger.lines = pre.lines \o AbsentRows(txs, pre)
           /\ Len(ledger.lines) - Len(pre.lines)
                = Cardinality({i \in 1..Len(txs) : txs[i].hash \notin PersistedHashes(pre)})

C5_Witness ==
    /\ csv_pc = "done"
    /\ Readable(pre)
    /\ Len(pre.lines) = 2
    /\ Len(txs) = 2
    /\ txs[1].hash \in PersistedHashes(pre)
    /\ txs[2].hash \notin PersistedHashes(pre)
    /\ Len(ledger.lines) = 3

\* C6 as stated: whatever the ledger was (absent or existing), the second of
\* two calls in sequence with the same input leaves the ledger as it was.
C6_Idempotent ==
    (csv_pc = "done" /\ again) => (ledger = pre /\ rows = <<>>)

\* C6 amended: when the ledger was absent or readable, the second of two
\* calls in sequence with the same input finds no new row and leaves the
\* ledger as it was.
C6_IdempotentOnReadable ==
    (csv_pc = "done" /\ again /\ (~pre.exists \/ Readable(pre)))
        => (ledger = pre /\ rows = <<>>)

C6_Witness ==
    /\ csv_pc = "done"
    /\ again
    /\ ~ledger0.exists
    /\ Len(txs) = 2
    /\ Len(ledger.lines) = 3
    /\ ledger = pre

\* C7: starting from an absent ledger no two rows of the ledger share a hash.
C7_HashesUnique ==
    ~ledger0.exists =>
        \A i, j \in 1..Len(ledger.lines) :
            (ledger.lines[i].kind = "row" /\ ledger.lines[j].kind = "row"
                /\ ledger.lines[i].hash = ledger.lines[j].hash) => i = j

\* C8: a completed call leaves the content the file had before the call as
\* an unchanged prefix of its content, and an existing file existing.
C8_AppendOnly ==
    csv_pc = "done" => /\ IsPrefix(pre.lines, ledger.lines)
                       /\ pre.exists => ledger.exists

C8_Witness ==
    /\ csv_pc = "done"
    /\ pre.exists
    /\ Len(pre.lines) >= 2
    /\ Len(ledger.lines) > Len(pre.lines)

\* C9: after an interruption the ledger holds its content of before the call
\* or the fully merged content.
C9_CrashSafe ==
    csv_pc = "crashed" =>
        \/ ledger.lines = pre.lines
        \/ ledger.lines = pre.lines \o (IF pre.exists THEN <<>> ELSE <<Header>>)
                                    \o AbsentRows(txs, pre)

\* C10 as stated: a completed call on an unparseable file has logged the
\* warning and left the file as it was.
C10_UnreadableUntouched ==
    (csv_pc = "done" /\ Unreadable(pre)) => (warned /\ ledger = pre)

\* C10 amended: a completed call on an unparseable file has logged the
\* warning, has taken every input record as new, and has left what the file
\* held as an unchanged prefix, followed by one row for each input record.
C10_UnreadableKeptAndAppended ==
    (csv_pc = "done" /\ Unreadable(pre))
        => /\ warned
           /\ rows = txs
           /\ ledger = File(pre.lines \o
                 [i \in 1..Len(txs) |->
                    [kind |-> "row", hash |-> txs[i].hash, value_eth |-> ValueEth(txs[i].value)]])

C10_Witness ==
    /\ csv_pc = "done"
    /\ Unreadable(pre)
    /\ Len(pre.lines) = 3
    /\ Len(txs) = 2
    /\ txs[1].hash \in PersistedHashes(pre)
    /\ Len(ledger.lines) = 5

----------------------------------------------------------------------------
(* The totals *)

\* a record not flagged as failed whose recipient, sender is the address a
Inbound(tx, a) == tx.isError # "1" /\ Lower(tx.to) = a
Outbound(tx, a) == tx.isError # "1" /\ Lower(tx.from) = a

\* sum of the amounts of the inbound, outbound records among the first n of t
RECURSIVE SumInbound(_, _, _)
SumInbound(t, n, a) ==
    IF n = 0 THEN 0
    ELSE SumInbound(t, n - 1, a) + (IF Inbound(t[n], a) THEN Amount(t[n].value) ELSE 0)

RECURSIVE SumOutbound(_, _, _)
SumOutbound(t, n, a) ==
    IF n = 0 THEN 0
    ELSE SumOutbound(t, n - 1, a) + (IF Outbound(t[n], a) THEN Amount(t[n].value) ELSE 0)

\* C11: the totals are the sum over the records not flagged as failed whose
\* recipient is the address (received) and the sum over those whose sender is
\* the address (sent), compared without regard to case.
C11_Totals ==
    tot_pc = "done" =>
        /\ received = SumInbound(tot_txs, Len(tot_txs), tot_address)
        /\ sent = SumOutbound(tot_txs, Len(tot_txs), tot_address)

\* C12: the iteration that takes a record not flagged as failed whose sender
\* and recipient are both the address adds its amount to received and to sent.
C12_SelfTransferBothSides ==
    [][(tot_pc = "loop" /\ tot_i < Len(tot_txs)
          /\ Inbound(tot_txs[tot_i + 1], tot_address)
          /\ Outbound(tot_txs[tot_i + 1], tot_address))
        => /\ received' = received + Amount(tot_txs[tot_i + 1].value)
           /\ sent' = sent + Amount(tot_txs[tot_i + 1].value)]_vars

----------------------------------------------------------------------------
(* Benign statuses *)

\* a 2xx payload of status "0" with a benign message and a result field
Benign(resp) ==
    /\ resp.conn /\ resp.code = 200 /\ resp.isDict /\ resp.hasResult
    /\ resp.status = "0"
    /\ resp.message \in {"No transactions found", "OK"}

\* C14: when the response of the latest attempt is a 2xx payload of status
\* "0" with a benign message and a result field, the dispatcher has returned
\* it on that attempt (it neither failed nor went on to a retry or a backoff
\* sleep), and once the collector has taken it an empty result has ended the
\* collection normally.
C14_BenignIsSuccess ==
    (last # <<>> /\ Benign(last[1]))
        => /\ req_pc \in {"returned", "idle"}
           /\ reply.ok
           /\ reply.data = last[1]
           /\ (req_pc = "idle" /\ reply.result = <<>>) => col_pc = "done"

C14_Witness ==
    /\ last = <<Json("0", "No transactions found", TRUE)>>
    /\ attempt = 2
    /\ req_pc = "idle"
    /\ col_pc = "done"
    /\ fetched = <<1, 2>>
    /\ Len(returned) = PAGE_SIZE

----------------------------------------------------------------------------
(* The page requests of the collector *)

\* records accumulated once pages 1..p of the history were taken
Accumulated(p) == Min(p * PAGE_SIZE, Total(remote))

\* a stop condition holds at page p: the page is empty or short, or the
\* accumulator has reached the limit
StopAt(p) ==
    \/ Len(PageContent(remote, p)) < PAGE_SIZE
    \/ Accumulated(p) >= limit

\* pages 1, 2, ..., n
PagesUpTo(n) == [i \in 1..n |-> i]

\* the first page at which a stop condition holds
FirstStop == CHOOSE n \in 1..(MaxPages + 3) : StopAt(n) /\ \A k \in 1..(n - 1) : ~StopAt(k)

\* C15 as stated: the pages fetched by an execution whose requests were all
\* answered are 1..n with n the first page at which a stop condition holds,
\* and none when limit <= 0.
C15_PagesUpToFirstStop ==
    (col_pc \in {"done", "raised"} /\ PagesAnswered)
        => fetched = IF limit <= 0 THEN <<>> ELSE PagesUpTo(FirstStop)

\* C15 amended: the pages fetched are always 1, 2, ..., k in order, each
\* once, the cursor one past the full pages taken; no stop condition holds at
\* a page before the last one fetched; a collection that returns has fetched
\* up to the first page at which a stop condition holds (none when
\* limit <= 0); a collection that raises although every request was answered
\* has fetched pages 1..MaxPages+1, all full.
C15_PagesUpToFirstStopOrGuard ==
    /\ fetched = PagesUpTo(Len(fetched))
    /\ \A k \in 1..(Len(fetched) - 1) : ~StopAt(k)
    /\ col_pc = "loop" => page = Len(fetched) + 1
    /\ col_pc = "done"
        => fetched = IF limit <= 0 THEN <<>> ELSE PagesUpTo(FirstStop)
    /\ (col_pc = "raised" /\ PagesAnswered)
        => /\ fetched = PagesUpTo(MaxPages + 1)
           /\ Len(PageContent(remote, MaxPages + 1)) = PAGE_SIZE

C15_Witness ==
    /\ col_pc = "done"
    /\ remote = [full |-> 2, last |-> 37]
    /\ limit = 500
    /\ fetched = <<1, 2, 3>>

C15_WitnessGuard ==
    /\ col_pc = "raised"
    /\ PagesAnswered
    /\ fetched = PagesUpTo(MaxPages + 1)

\* C16 as stated: never more than MaxPages pages are fetched.
C16_AtMostMaxPages == Len(fetched) <= MaxPages

\* the history keeps giving full pages and the limit is not reached
\* within MaxPages pages
KeepsGivingFullPages == remote.full > MaxPages /\ limit > MaxPages * PAGE_SIZE

\* C16 amended: never more than MaxPages + 1 pages are fetched; against a
\* history that keeps giving full pages, with a limit not reached within
\* MaxPages pages, a collection whose requests are all answered ends, after
\* page MaxPages + 1, with the raise and without a return value; and every
\* collection comes to an end.
C16_AtMostMaxPagesPlusOne ==
    /\ [](/\ Len(fetched) <= MaxPages + 1
          /\ seen_pages <= MaxPages + 1
          /\ (col_pc \in {"done", "raised"} /\ PagesAnswered /\ KeepsGivingFullPages)
                => /\ col_pc = "raised"
                   /\ fetched = PagesUpTo(MaxPages + 1)
                   /\ returned = <<>>)
    /\ <>(col_pc \in {"done", "raised"})

C16_Witness ==
    /\ col_pc = "raised"
    /\ PagesAnswered
    /\ seen_pages = MaxPages + 1
    /\ limit = (MaxPages + 2) * PAGE_SIZE

----------------------------------------------------------------------------
(* Backoff and rate limit *)

\* d lies within the jitter range of the nominal delay after failed attempt n
WithinJitter(d, n) ==
    /\ d * 1000 >= BACKOFF_BASE * 2^(n - 1) * (1000 - JITTER)
    /\ d * 1000 <= BACKOFF_BASE * 2^(n - 1) * (1000 + JITTER)

\* C17: for every attempt number n up to MAX_RETRIES and every jitter the
\* delay of sleep_with_jitter lies within the jitter range of
\* BACKOFF_BASE * 2^(n-1), is at most BACKOFF_MAX and is positive; and the
\* backoff slept before attempt n + 1 is such a delay for n.
C17_BackoffWithinBounds ==
    /\ \A n \in 1..MAX_RETRIES : \A jitter \in Jitters :
        LET d == SleepWithJitter(BACKOFF_BASE * 2^(n - 1), jitter) IN
        WithinJitter(d, n) /\ d <= BACKOFF_MAX /\ d > 0
    /\ attempt > 1 =>
        /\ WithinJitter(slept, attempt - 1)
        /\ slept <= BACKOFF_MAX
        /\ slept > 0
        /\ delay = BACKOFF_BASE * 2^(attempt - 1)

C17_Witness ==
    /\ attempt = MAX_RETRIES
    /\ req_pc = "get"
    /\ slept = (BACKOFF_BASE * 2^(MAX_RETRIES - 2) * (1000 + JITTER)) \div 1000

\* C18: whenever the dispatcher is about to issue a network request, exactly
\* one rate-limit wait of RATE_LIMIT_DELAY was made since the call began or
\* since the previous network request, after a backoff sleep or not.
C18_RateLimitBeforeEachAttempt ==
    req_pc = "get" => pause = RATE_LIMIT_DELAY

C18_Witness ==
    /\ req_pc = "get"
    /\ attempt = 3
    /\ slept > 0
    /\ Len(trace) = 2
    /\ pause = RATE_LIMIT_DELAY

----------------------------------------------------------------------------
(* The header of the ledger *)

\* C19: starting from an absent ledger file, after any sequence of completed
\* append_csv calls the ledger file, when it exists, has the header as its
\* first line and no other header line.
C19_HeaderOnce ==
    (~ledger0.exists /\ csv_pc \in {"idle", "done"} /\ ledger.exists)
        => /\ Len(ledger.lines) >= 1
           /\ ledger.lines[1] = Header
           /\ \A i \in 2..Len(ledger.lines) : ledger.lines[i] # Header

C19_Witness ==
    /\ ~ledger0.exists
    /\ csv_pc = "done"
    /\ pre.exists
    /\ Len(ledger.lines) > Len(pre.lines)
    /\ Len(pre.lines) >= 2

----------------------------------------------------------------------------
(* The run as a whole *)

\* the run ended with an error
RunFailed == run_pc \in {"failed", "fatal"}

\* C13: when a run has ended with the fatal error after the balance (and the
\* price) had been obtained, what had been obtained has been reported.
C13_PartialResultsReported ==
    run_pc = "fatal" =>
        /\ balance # <<>> => "Balance" \in reported
        /\ price # <<>> => "ETH price" \in reported

\* C20: a run that ended with an error never entered append_csv and left the
\* ledger file and the temporary file as they were; append_csv is entered
\* only with balance, price and history obtained; no fetch is started on an
\* invalid address or API key; the fetches are started in the order
\* balance, price, history, each after the previous one had returned, and
\* every request in progress belongs to the fetch started last.
C20_PersistAfterAllFetches ==
    /\ RunFailed => (csv_pc = "idle" /\ ledger = ledger0 /\ tmp = Absent)
    /\ csv_pc # "idle" =>
        /\ balance # <<>> /\ price # <<>> /\ col_pc = "done"
        /\ txs = [i \in 1..Len(returned) |-> TxOf(returned[i])]
    /\ (args.address = "nope" \/ args.apikey = "short") => started = <<>>
    /\ IsPrefix(started, <<"balance", "price", "history">>)
    /\ Len(started) >= 2 => balance # <<>>
    /\ Len(started) >= 3 => price # <<>>
    /\ Len(started) < 3 => (col_pc = "idle" /\ fetched = <<>>)
    /\ req_pc # "idle" =>
        /\ started # <<>>
        /\ caller = <<"get_balance", "get_eth_price", "get_transactions">>[Len(started)]

C20_Witness ==
    /\ run_pc = "fatal"
    /\ args.csv # ""
    /\ balance # <<>>
    /\ price # <<>>
    /\ fetched = <<1>>
    /\ col_pc = "raised"
    /\ req_pc = "raised"
    /\ ledger.exists

====
